---- MODULE Spec2Model ----
(***************************************************************************)
(* Caption timeline of the Apollova After Effects scripts.                 *)
(*                                                                         *)
(* The injection scripts turn a job's markers into a `segments` array and  *)
(* inject expressions that the host evaluates once per rendered frame:     *)
(* the LYRIC_TEXT source text (Mono, Nova, Onyx, installer Mono), the      *)
(* Gaussian blur of LYRIC_TEXT, the LYRIC_TEXT opacity and the TAG_TEXT    *)
(* opacity.  The model keeps the job, the arrays built from it, the        *)
(* sampler's position (time, segIndex) and the value every expression      *)
(* returned for the frame last rendered.                                   *)
(*                                                                         *)
(* Units.  Times are integers in centiseconds (0.12 s = 12).  Job times on *)
(* this grid have at most two decimals, so toFixed(3) prints them exactly. *)
(* Blur and opacity values are kept multiplied by Scale, which makes every *)
(* division of the linear fades exact.  A string is a sequence of          *)
(* one-character strings.  An optional value is <<>> or <<v>>; an          *)
(* expression that throws returns <<>>.  A number of the job data is       *)
(* optional: <<>> stands for a value that is missing or not a number       *)
(* (undefined, null), which Number() and || read as NaN or as falsy.       *)
(***************************************************************************)
EXTENDS Integers, Sequences, FiniteSets, TLC

VARIABLES
    lyricsData,     \* the job's lyrics.txt entries, <<>> when it has none
    markers,        \* the job's markers array (mono_data.json / lyrics)
    segments,       \* Mono: `var segments` built by buildSegmentsArrayStringWithEnds
    novaSegments,   \* Nova: `var segments` built by buildSegmentsArrayString
    segmentsCode,   \* Onyx and installer Mono: `var segments` built inline
    time,           \* the host's `time` of the frame last rendered
    segIndex,       \* LYRIC CONTROL "Lyric Data" Point[0] of that frame
    monoText,       \* LYRIC_TEXT source text, Apollova-Mono
    novaText,       \* LYRIC_TEXT source text, Apollova-Nova
    onyxText,       \* LYRIC_TEXT source text, installer Onyx
    instMonoText,   \* LYRIC_TEXT source text, installer Mono
    blur,           \* Blurriness of LYRIC_TEXT, times Scale
    opacity,        \* Opacity of LYRIC_TEXT, times Scale, <<>> if it threw
    tagOpacity,     \* Opacity of TAG_TEXT, times Scale, <<>> if it threw
    ref,            \* a remembered frame <<time, segIndex, outputs>>, or <<>>
    jobFiles,       \* the jobs folder of the batch script: its job_data.json files
    project,        \* the After Effects project the batch script works on
    batch,          \* the batch script's run: status, index of the job in hand
    single,         \* the LYRIC FONT comp of the single-job script, Main.jsx
    script,         \* which of the style batch scripts is run
    jobsFolder,     \* what that script finds on disk: the folder and its jobs
    ae,             \* the After Effects project the style script works on
    styleRun,       \* the style script's run: status, index of the job in hand
    markerKeys,     \* the Marker keys of a layer: the set of <<time, comment>>
    intensityKeys   \* the keys of Spot Light 2's Intensity: <<time, value>>

captionVars == <<lyricsData, markers, segments, novaSegments, segmentsCode, time,
                 segIndex, monoText, novaText, onyxText, instMonoText, blur,
                 opacity, tagOpacity, ref>>

batchVars == <<jobFiles, project, batch, single>>

styleVars == <<script, jobsFolder, ae, styleRun>>

keyVars == <<markerKeys, intensityKeys>>

vars == <<captionVars, batchVars, styleVars, keyVars>>

-----------------------------------------------------------------------------
(* Bounds of the model *)

MaxWords == 6      \* words per segment in the wrapping jobs: 0..MaxWords
WordGap == 5       \* centiseconds between two words of a wrapping job
MaxTime == 190     \* the sampler renders frames at times 0..MaxTime
MaxRefTime == 60   \* SpecPure: frames at times 0..MaxRefTime
LyricStart == 20   \* the time of the first entry of a lyrics.txt
NoisyStart == 30   \* the second word of a noisy job; its markers are this apart
MaxJobs == 2       \* job folders of a batch: 0..MaxJobs
MaxRuns == 2       \* runs of a key-setting step on one layer
BeatStart == 10    \* the first beat of the job data
LyricStep == 40    \* between two entries of a lyrics.txt

-----------------------------------------------------------------------------
(* Program constants *)

wordsPerLine == 4      \* Mono
onyxWordsPerLine == 3  \* Onyx: revealedWords.slice(i, i + 3)
maxLen == 25           \* Nova
MAX == 25              \* the batch script: visual wrap threshold
wordBlurMax == 15
wordFadeTime == 12     \* 0.12 s
fadeDur == 15          \* 0.15 s, LYRIC_TEXT opacity
lastWordHold == 30     \* 0.3 s added to the last word's start
tagFadeDur == 10       \* 0.1 s, TAG_TEXT opacity
tagMinGap == 50        \* 0.5 s, `gapDuration < 0.5`
tagLead == 20          \* 0.2 s, tagEnd = nextSegStart - 0.2
defaultSegLenOfInstaller == 100 * 3  \* the installer's 3 s taken for Mono's 5 s
defaultSegLen == 500   \* 5 s, `Number(m.end_time) || (t + 5)`
onyxDefaultSegLen == 300 \* 3 s, `m.end_time || (m.time + 3)`
avgWordDuration == 30  \* 0.3 s between the words made from a text

Scale == wordFadeTime * fadeDur * tagFadeDur

-----------------------------------------------------------------------------
(* Characters and strings *)

SP == " "
CR == "\r"
LF == "\n"
QUOTE == "\""
BACKSLASH == "\\"

Rep(c, n) == [i \in 1..n |-> c]

\* the pieces of a sequence of strings, one after the other
RECURSIVE ConcatRange(_, _, _)
ConcatRange(ss, lo, hi) ==
    IF lo > hi THEN <<>>
    ELSE IF lo = hi THEN ss[lo]
    ELSE ConcatRange(ss, lo, (lo + hi) \div 2)
         \o ConcatRange(ss, (lo + hi) \div 2 + 1, hi)

Concat(ss) == ConcatRange(ss, 1, Len(ss))

\* Array.prototype.join
RECURSIVE join(_, _)
join(ws, sep) ==
    IF ws = <<>> THEN <<>>
    ELSE IF Len(ws) = 1 THEN ws[1]
    ELSE ws[1] \o sep \o join(Tail(ws), sep)

\* String.prototype.trim
RECURSIVE trimLeft(_)
trimLeft(s) ==
    IF s # <<>> /\ Head(s) \in {SP, CR, LF} THEN trimLeft(Tail(s)) ELSE s

RECURSIVE trimRight(_)
trimRight(s) ==
    IF s # <<>> /\ s[Len(s)] \in {SP, CR, LF}
    THEN trimRight(SubSeq(s, 1, Len(s) - 1)) ELSE s

trim(s) == trimRight(trimLeft(s))

\* .replace(/\\/g, "\\\\").replace(/"/g, '\\"') : the text of a string literal
escapeWord(s) ==
    Concat([i \in 1..Len(s) |->
              IF s[i] \in {BACKSLASH, QUOTE} THEN <<BACKSLASH, s[i]>> ELSE <<s[i]>>])

\* .replace(/\\/g,"\\\\").replace(/"/g,'\\"').replace(/\n/g,"\\n").replace(/\r/g,"")
escapeForExpression(s) ==
    Concat([i \in 1..Len(s) |->
              CASE s[i] \in {BACKSLASH, QUOTE} -> <<BACKSLASH, s[i]>>
                [] s[i] = LF -> <<BACKSLASH, "n">>
                [] s[i] = CR -> <<>>
                [] OTHER -> <<s[i]>>])

\* The value the expression engine reads back from the literal's text: a
\* backslash that is not itself escaped escapes the character after it
literalValue(s) ==
    LET run(p) ==    \* the backslashes in a row that end right before p
            LET other == {j \in 1..(p - 1) : s[j] # BACKSLASH}
            IN IF other = {} THEN p - 1
               ELSE p - 1 - (CHOOSE j \in other : \A k \in other : k <= j)
        escaped(p) == run(p) % 2 = 1
        escapes(p) == s[p] = BACKSLASH /\ ~escaped(p) /\ p < Len(s)
        read == [p \in 1..Len(s) |->
                   [c |-> IF escaped(p) /\ s[p] = "n" THEN LF ELSE s[p],
                    keep |-> ~escapes(p)]]
        kept == SelectSeq(read, LAMBDA x : x.keep)
    IN [k \in 1..Len(kept) |-> kept[k].c]

\* the characters of the class \s that the jobs use
Separators == {SP, CR, LF}

\* the pieces of s between separators; no piece for the empty string
Split(s, seps) ==
    IF s = <<>> THEN <<>>
    ELSE LET cuts == {i \in 1..Len(s) : s[i] \in seps} \cup {0, Len(s) + 1}
             Cut(k) == CHOOSE c \in cuts : Cardinality({d \in cuts : d < c}) = k - 1
         IN [k \in 1..(Cardinality(cuts) - 1) |->
               SubSeq(s, Cut(k) + 1, Cut(k + 1) - 1)]

\* text.replace(/\s/g, "") === ""
isBlank(s) == \A i \in 1..Len(s) : s[i] \in Separators

\* .replace(/\\r/g, " ") : a backslash followed by the letter r, not a CR
unescapeCR(s) ==
    LET hit(p) == p >= 1 /\ p < Len(s) /\ s[p] = BACKSLASH /\ s[p + 1] = "r"
    IN Concat([p \in 1..Len(s) |->
                 IF hit(p) THEN <<SP>> ELSE IF hit(p - 1) THEN <<>> ELSE <<s[p]>>])

\* .replace(/\s+/g, " ")
collapseSpace(s) ==
    Concat([p \in 1..Len(s) |->
              IF s[p] \in Separators
              THEN (IF p > 1 /\ s[p - 1] \in Separators THEN <<>> ELSE <<SP>>)
              ELSE <<s[p]>>])

\* text.replace(/\\r/g, " ").replace(/\s+/g, " ").trim()
cleanText(text) == trim(collapseSpace(unescapeCR(text)))

\* text.split(/\s+/)
splitSpace(text) ==
    IF text = <<>> THEN << <<>> >> ELSE Split(collapseSpace(text), {SP})

Digit(d) == <<"0", "1", "2", "3", "4", "5", "6", "7", "8", "9">>[d + 1]

\* String(n) of a natural number
RECURSIVE digits(_)
digits(n) == IF n < 10 THEN <<Digit(n)>> ELSE digits(n \div 10) \o <<Digit(n % 10)>>

\* ("00" + jobId).slice(-3)
pad3(jobId) ==
    LET str == <<"0", "0">> \o digits(jobId)
    IN SubSeq(str, Len(str) - 2, Len(str))

\* new Folder(jobFolder).parent
parentOf(path) == SubSeq(path, 1, Len(path) - 1)

\* the folder of job n: jobs/job_00n
JobFolder(n) == <<"jobs", <<"j", "o", "b", "_">> \o pad3(n)>>

-----------------------------------------------------------------------------
(* Jobs: the markers arrays the scripts are run on *)

Hello == <<"h","e","l","l","o">>
HelloWorld == Hello \o <<SP>> \o <<"w","o","r","l","d">>

ShortVocab ==
    << <<"h","e","l","l","o">>, <<"w","o","r","l","d">>, <<"a","i","n","'","t">>,
       <<QUOTE,"o","k",QUOTE>>, <<"n","o",BACKSLASH>>, <<"I">> >>

LongLens == <<12, 12, 13, 12, 26, 1>>
Letters == <<"A", "B", "C", "D", "E", "F", "G">>

Vocab(p, k) ==
    IF p = "short" THEN ShortVocab[((k - 1) % Len(ShortVocab)) + 1]
    ELSE <<Letters[((k - 1) % Len(Letters)) + 1]>>
         \o Rep("x", LongLens[((k - 1) % Len(LongLens)) + 1] - 1)

MarkerWords(p, n, t0, gap) ==
    [k \in 1..n |-> [word |-> Vocab(p, k), start |-> <<t0 + (k - 1) * gap>>]]

Marker(t0, endOpt, ws, rawText) ==
    [time |-> <<t0>>, end_time |-> endOpt, text |-> rawText, words |-> ws]

LineOf(ws) == join([k \in 1..Len(ws) |-> ws[k].word], <<SP>>)

\* one segment of 0..MaxWords words, WordGap apart, no end_time
WrapJobs ==
    { << Marker(0, <<>>, MarkerWords(p, n, 0, WordGap),
                IF n = 0 THEN ShortVocab[1]
                ELSE LineOf(MarkerWords(p, n, 0, WordGap))) >> :
        p \in {"short", "long"}, n \in 0..MaxWords }

\* hello@0 world@0.5, then a second segment g after lastWordTime = 0.8
SegGaps == {-10, 0, 5, 15, 16, 30, 49, 50, 60}

FadeJobs ==
    { << Marker(0, <<300>>, MarkerWords("short", 2, 0, 50),
                LineOf(MarkerWords("short", 2, 0, 50))),
         Marker(80 + g, <<>>, MarkerWords("long", 2, 80 + g, 10),
                LineOf(MarkerWords("long", 2, 80 + g, 10))) >> :
        g \in SegGaps }

\* no segment; segments that start after 0; segments that share a start time
LocatorJobs ==
    { <<>> } \cup
    { << Marker(10, <<>>, MarkerWords("short", 1, 12, 10), ShortVocab[1]),
         Marker(s2, <<>>, MarkerWords("long", 2, s2, 10), ShortVocab[2]),
         Marker(40, <<90>>, MarkerWords("short", 3, 40, 20), ShortVocab[3]) >> :
        s2 \in {10, 25, 40} }

\* a marker as the upstream stage may write it: a time that is missing or
\* not a number (<<>>), or negative
RawMarker(timeOpt, endOpt, ws, rawText) ==
    [time |-> timeOpt, end_time |-> endOpt, text |-> rawText, words |-> ws]

NoisyText == <<SP>> \o Hello \o <<CR>> \o ShortVocab[2] \o <<SP>>

\* noisy times on the first marker and its words, no words on the second
NoisyJobs ==
    { << RawMarker(t1, <<>>,
                   << [word |-> ShortVocab[1], start |-> s1],
                      [word |-> ShortVocab[2], start |-> <<NoisyStart>>] >>,
                   HelloWorld),
         RawMarker(<<2 * NoisyStart>>, <<>>, <<>>, NoisyText),
         Marker(4 * NoisyStart, <<>>, MarkerWords("short", 2, 4 * NoisyStart, WordGap),
                HelloWorld) >> :
        t1 \in {<<>>, <<0 - NoisyStart>>, <<0>>},
        s1 \in {<<>>, <<0 - WordGap>>, <<WordGap>>} }

Jobs == WrapJobs \cup FadeJobs \cup LocatorJobs \cup NoisyJobs

\* the jobs whose markers are set as keys
KeyJobs == FadeJobs \cup LocatorJobs \cup NoisyJobs

\* an entry of lyrics.txt: its time under the key `t` or the key `time`
LyricEntry(key, t0, rawText, wordsOpt) ==
    [t |-> IF key = "t" THEN <<t0>> ELSE <<>>,
     time |-> IF key = "time" THEN <<t0>> ELSE <<>>,
     text |-> rawText,
     words |-> wordsOpt]

HelloText == Hello \o <<SP, SP>> \o ShortVocab[2] \o <<SP>>
OkText == ShortVocab[3] \o <<BACKSLASH, "r">> \o ShortVocab[6] \o <<LF>> \o ShortVocab[1]

WordsGiven(kind, t0, n) ==
    IF kind = "none" THEN <<>>
    ELSE IF kind = "empty" THEN << <<>> >>
    ELSE << MarkerWords("short", n, t0, WordGap) >>

\* three entries at strictly increasing times, a blank one in between
LyricsInputs ==
    { << LyricEntry(key, LyricStart, HelloText, WordsGiven(kind, LyricStart, 2)),
         LyricEntry(key, LyricStart + LyricStep, <<SP, SP>>, <<>>),
         LyricEntry(key, LyricStart + 2 * LyricStep, OkText,
                    WordsGiven(kind, LyricStart + 2 * LyricStep, 3)) >> :
        key \in {"t", "time"}, kind \in {"none", "given", "empty"} }

-----------------------------------------------------------------------------
(* lyrics.txt to markers (installer Onyx and Mono) *)

\* JavaScript `x || d` on an optional number: missing and 0 are both falsy
OrElse(opt, d) == IF opt = <<>> \/ opt[1] = 0 THEN d ELSE opt[1]

\* JavaScript `x + d`: undefined + d is NaN
Plus(opt, d) == IF opt = <<>> THEN <<>> ELSE <<opt[1] + d>>

\* buildWordsFromText(cleanText, seg.t || 0): the start of the first word
synthStart(seg) == OrElse(seg.t, 0)

\* the `end` of a word, which no expression reads, is left out
buildWordsFromText(text, startTime) ==
    LET words == splitSpace(text)
        all == [i \in 1..Len(words) |->
                  [word |-> words[i],
                   start |-> <<startTime + (i - 1) * avgWordDuration>>]]
    IN SelectSeq(all, LAMBDA x : x.word # <<>>)

\* the marker pushed for entry i of lyricsData
lyricMarker(ld, i) ==
    LET seg == ld[i]
        text == cleanText(seg.text)
        mtime == OrElse(seg.t, OrElse(seg.time, 0))
    IN [time |-> <<mtime>>,
        text |-> text,
        words |-> IF seg.words # <<>> THEN seg.words[1]
                  ELSE buildWordsFromText(text, synthStart(seg)),
        end_time |-> IF i < Len(ld)
                     THEN <<OrElse(ld[i + 1].t,
                                   OrElse(ld[i + 1].time, mtime + onyxDefaultSegLen))>>
                     ELSE <<mtime + onyxDefaultSegLen>>]

RECURSIVE convertFrom(_, _)
convertFrom(ld, i) ==
    IF i > Len(ld) THEN <<>>
    ELSE (IF isBlank(ld[i].text) THEN <<>> ELSE <<lyricMarker(ld, i)>>)
         \o convertFrom(ld, i + 1)

convertLyricsToMarkers(lyricsData0) == convertFrom(lyricsData0, 1)

-----------------------------------------------------------------------------
(* The arrays the scripts build from the markers *)

buildSegmentsArrayStringWithEnds(ms) ==
    [i \in 1..Len(ms) |->
        LET t == OrElse(ms[i].time, 0)
            e == OrElse(ms[i].end_time, t + defaultSegLen)
        IN [t |-> t, e |-> e,
            words |-> [j \in 1..Len(ms[i].words) |->
                         [w |-> literalValue(escapeWord(ms[i].words[j].word)),
                          s |-> OrElse(ms[i].words[j].start, 0)]]]]

buildSegmentsArrayString(ms) ==
    [i \in 1..Len(ms) |->
        [t |-> OrElse(ms[i].time, 0),
         words |-> [j \in 1..Len(ms[i].words) |->
                      [w |-> literalValue(escapeWord(ms[i].words[j].word)),
                       s |-> OrElse(ms[i].words[j].start, 0)]]]]

buildSegmentsCode(ms) ==
    [k \in 1..Len(ms) |->
        [time |-> OrElse(ms[k].time, 0),
         text |-> literalValue(escapeForExpression(ms[k].text)),
         words |-> [w \in 1..Len(ms[k].words) |->
                      [word |-> literalValue(escapeForExpression(ms[k].words[w].word)),
                       start |-> OrElse(ms[k].words[w].start, 0)]],
         end_time |-> IF ms[k].end_time # <<>> /\ ms[k].end_time[1] # 0
                      THEN ms[k].end_time
                      ELSE Plus(ms[k].time, onyxDefaultSegLen)]]

-----------------------------------------------------------------------------
(* LYRIC_TEXT source text *)

\* an accumulator that outlives the evaluation
monoOutputKept == monoText

\* `var output = "";` of the Mono expression
monoOutput0 == <<>>

\* a word shown only while it fades in
wordStartedBriefly(t, s) == t >= s /\ t < s + wordFadeTime

\* a reveal that misses the start instant
wordStartedStrict(t, s) == t > s

\* if (time >= seg.words[i].s)
wordStarted(t, s) == t >= s

\* a break one word early
monoLineFullEarly(wordCount) == (wordCount + 1) % wordsPerLine = 0

\* if (wordCount % wordsPerLine === 0)
monoLineFull(wordCount) == wordCount % wordsPerLine = 0

RECURSIVE monoLoop(_, _, _, _, _)
monoLoop(seg, t, i, output, wordCount) ==
    IF i > Len(seg.words) THEN output
    ELSE IF wordStarted(t, seg.words[i].s)
         THEN LET sep == IF wordCount > 0
                         THEN (IF monoLineFull(wordCount) THEN <<CR>> ELSE <<SP>>)
                         ELSE <<>>
              IN monoLoop(seg, t, i + 1, output \o sep \o seg.words[i].w, wordCount + 1)
         ELSE monoLoop(seg, t, i + 1, output, wordCount)

monoExpression(segs, idx, t) ==
    IF idx < 1 \/ idx > Len(segs) THEN <<>>
    ELSE monoLoop(segs[idx], t, 1, monoOutput0, 0)

\* the joining space left out of the budget
novaLineFullNoSpace(lineLen, word) == lineLen + Len(word) > maxLen

\* if (lineLen + 1 + word.length > maxLen)
novaLineFull(lineLen, word) == lineLen + 1 + Len(word) > maxLen

RECURSIVE novaLoop(_, _, _, _, _)
novaLoop(seg, t, i, output, lineLen) ==
    IF i > Len(seg.words) THEN output
    ELSE IF t >= seg.words[i].s
         THEN LET word == seg.words[i].w
                  brk == Len(output) > 0 /\ novaLineFull(lineLen, word)
                  sep == IF Len(output) > 0 THEN (IF brk THEN <<CR>> ELSE <<SP>>)
                         ELSE <<>>
                  len1 == IF Len(output) > 0 THEN (IF brk THEN 0 ELSE lineLen + 1)
                          ELSE lineLen
              IN novaLoop(seg, t, i + 1, output \o sep \o word, len1 + Len(word))
         ELSE novaLoop(seg, t, i + 1, output, lineLen)

novaExpression(segs, idx, t) ==
    IF idx < 1 \/ idx > Len(segs) THEN <<>>
    ELSE novaLoop(segs[idx], t, 1, <<>>, 0)

\* a scan that lets go of a segment once its end time has passed
RECURSIVE currentSegUntilEnd(_, _, _)
currentSegUntilEnd(segs, t, i) ==
    IF i < 1 THEN 0
    ELSE IF t >= segs[i].time
         THEN (IF segs[i].end_time # <<>> /\ t > segs[i].end_time[1] THEN 0 ELSE i)
    ELSE currentSegUntilEnd(segs, t, i - 1)

\* a forward scan: the first segment that has started
currentSegFirst(segs, t, i) ==
    LET started == {j \in 1..i : t >= segs[j].time}
    IN IF started = {} THEN 0 ELSE CHOOSE j \in started : \A k \in started : j <= k

\* for (i = segments.length - 1; i >= 0; i--) if (t >= segments[i].time) ...
\* returns the 1-based index of currentSeg, 0 for null
RECURSIVE currentSeg(_, _, _)
currentSeg(segs, t, i) ==
    IF i < 1 THEN 0
    ELSE IF t >= segs[i].time THEN i
    ELSE currentSeg(segs, t, i - 1)

RECURSIVE revealedWords(_, _, _)
revealedWords(ws, t, w) ==
    IF w > Len(ws) THEN <<>>
    ELSE (IF t >= ws[w].start THEN <<ws[w].word>> ELSE <<>>)
         \o revealedWords(ws, t, w + 1)

\* lines.push(revealedWords.slice(i, Math.min(i + 3, length)).join(" "))
RECURSIVE onyxLines(_, _)
onyxLines(rw, i) ==
    IF i > Len(rw) THEN <<>>
    ELSE LET hi == IF i + onyxWordsPerLine - 1 < Len(rw)
                   THEN i + onyxWordsPerLine - 1 ELSE Len(rw)
         IN <<join(SubSeq(rw, i, hi), <<SP>>)>> \o onyxLines(rw, i + onyxWordsPerLine)

\* the length test left out
hasWordsUnchecked(seg) == TRUE

\* an off-by-one length test
hasWordsOffByOne(seg) == Len(seg.words) > 1

\* currentSeg.words && currentSeg.words.length > 0
hasWords(seg) == Len(seg.words) > 0

onyxExpression(segs, t) ==
    LET c == currentSeg(segs, t, Len(segs))
    IN IF c # 0 /\ hasWords(segs[c])
       THEN join(onyxLines(revealedWords(segs[c].words, t, 1), 1), <<LF>>)
       ELSE IF c # 0 THEN segs[c].text
       ELSE <<>>

RECURSIVE instMonoLoop(_, _, _, _)
instMonoLoop(ws, t, w, output) ==
    IF w > Len(ws) THEN output
    ELSE instMonoLoop(ws, t, w + 1,
             IF t >= ws[w].start THEN output \o ws[w].word \o <<SP>> ELSE output)

instMonoExpression(segs, t) ==
    LET c == currentSeg(segs, t, Len(segs))
    IN IF c # 0 /\ hasWords(segs[c])
       THEN trim(instMonoLoop(segs[c].words, t, 1, <<>>))
       ELSE IF c # 0 THEN trim(segs[c].text)
       ELSE <<>>

-----------------------------------------------------------------------------
(* Blur and opacity *)

\* an interpolation written by hand with the sign of the slope wrong
linearWrongSign(num, den, value1, value2) ==
    Scale * value1 - (Scale * (value2 - value1) * num) \div den

\* The host's linear(t, 0, 1, value1, value2) at t = num / den, times Scale
linear(num, den, value1, value2) ==
    IF num <= 0 THEN Scale * value1
    ELSE IF num >= den THEN Scale * value2
    ELSE Scale * value1 + (Scale * (value2 - value1) * num) \div den

\* a window that misses the start instant
inWordFadeLate(timeSinceWord) == timeSinceWord > 0 /\ timeSinceWord < wordFadeTime

\* timeSinceWord >= 0 && timeSinceWord < wordFadeTime
inWordFade(timeSinceWord) == timeSinceWord >= 0 /\ timeSinceWord < wordFadeTime

RECURSIVE blurLoop(_, _, _, _)
blurLoop(seg, t, i, b) ==
    IF i > Len(seg.words) THEN b
    ELSE LET timeSinceWord == t - seg.words[i].s
             wordBlur == Scale * wordBlurMax
                         - (Scale * wordBlurMax * timeSinceWord) \div wordFadeTime
         IN blurLoop(seg, t, i + 1,
                     IF inWordFade(timeSinceWord) /\ wordBlur > b THEN wordBlur ELSE b)

blurExpression(segs, idx, t) ==
    IF idx < 1 \/ idx > Len(segs) THEN 0
    ELSE blurLoop(segs[idx], t, 1, 0)

\* hidden for one more fade duration only
staysHiddenBriefly(t, lastWordTime, nextSegStart) ==
    t >= lastWordTime + fadeDur /\ t < lastWordTime + 2 * fadeDur /\ t < nextSegStart

\* hidden for good once faded
staysHiddenForever(t, lastWordTime, nextSegStart) == t >= lastWordTime + fadeDur

\* time >= lastWordTime + fadeDur && time < nextSegStart
staysHidden(t, lastWordTime, nextSegStart) ==
    t >= lastWordTime + fadeDur /\ t < nextSegStart

\* time > lastWordTime && time < lastWordTime + fadeDur
inFadeOut(t, lastWordTime) == t > lastWordTime /\ t < lastWordTime + fadeDur

opacityExpression(segs, idx, t) ==
    IF idx < 1 \/ idx > Len(segs) THEN <<0>>
    ELSE LET seg == segs[idx] IN
         IF Len(seg.words) = 0 THEN <<>>   \* seg.words[-1].s throws
         ELSE LET lastWordTime == seg.words[Len(seg.words)].s + lastWordHold IN
              IF idx < Len(segs)
              THEN LET nextSegStart == segs[idx + 1].t IN
                   IF inFadeOut(t, lastWordTime)
                   THEN <<linear(t - lastWordTime, fadeDur, 100, 0)>>
                   ELSE IF staysHidden(t, lastWordTime, nextSegStart)
                   THEN <<0>>
                   ELSE <<Scale * 100>>
              ELSE IF inFadeOut(t, lastWordTime)
                   THEN <<linear(t - lastWordTime, fadeDur, 100, 0)>>
                   ELSE IF t >= lastWordTime + fadeDur THEN <<0>>
                   ELSE <<Scale * 100>>

\* the lyric fade's duration taken for the threshold
tagGapShorterThanFade(gapDuration) == gapDuration < fadeDur

\* gapDuration < 0.5
tagGapTooShort(gapDuration) == gapDuration < tagMinGap

tagOpacityExpression(segs, idx, t) ==
    IF idx < 1 \/ idx >= Len(segs) THEN <<0>>
    ELSE LET seg == segs[idx] IN
         IF Len(seg.words) = 0 THEN <<>>   \* seg.words[-1].s throws
         ELSE LET lastWordTime == seg.words[Len(seg.words)].s + lastWordHold
                  nextSegStart == segs[idx + 1].t
                  gapDuration == nextSegStart - lastWordTime
                  tagStart == lastWordTime + tagFadeDur
                  tagEnd == nextSegStart - tagLead
              IN IF tagGapTooShort(gapDuration) THEN <<0>>
                 ELSE IF t >= tagStart /\ t < tagStart + tagFadeDur
                 THEN <<linear(t - tagStart, tagFadeDur, 0, 100)>>
                 ELSE IF t >= tagStart + tagFadeDur /\ t < tagEnd - tagFadeDur
                 THEN <<Scale * 100>>
                 ELSE IF t >= tagEnd - tagFadeDur /\ t < tagEnd
                 THEN <<linear(t - (tagEnd - tagFadeDur), tagFadeDur, 100, 0)>>
                 ELSE <<0>>

-----------------------------------------------------------------------------
(* The batch script (MVAE-pt1.jsx) and the single-job script (Main.jsx) *)

CarouselLayers == <<"LYRIC PREVIOUS", "LYRIC CURRENT", "LYRIC NEXT 1", "LYRIC NEXT 2">>

\* A Source Text expression is a sequence of pieces: a `var lyrics = [...];`
\* block with the entries the engine reads from it, or other code
LyricsBlock(entries) == [kind |-> "lyrics", entries |-> entries]
OtherCode == [kind |-> "code", entries |-> <<>>]

\* a block one of whose string literals runs over a line end: the regex
\* still finds it, the engine cannot read it
BrokenBlock == [kind |-> "broken", entries |-> <<>>]

\* "var lyrics = [\n" + pieces.join(",\n") + "\n];" for the literals' texts
BlockOf(texts) ==
    IF \E i \in 1..Len(texts) : \E p \in 1..Len(texts[i]) : texts[i][p] \in {CR, LF}
    THEN BrokenBlock
    ELSE LyricsBlock([i \in 1..Len(texts) |-> literalValue(texts[i])])

\* /var\s+lyrics\s*=\s*\[[\s\S]*?\];/ matches the piece
isBlock(piece) == piece.kind \in {"lyrics", "broken"}

\* wrapTwoLines(s, limit)
wrapTwoLines(s, limit) ==
    IF \E p \in 1..Len(s) : s[p] = CR THEN s
    ELSE IF Len(s) <= limit THEN s
    ELSE LET spaces == {p \in 1..Len(s) : s[p] = SP /\ p - 1 <= limit}
             cut == IF spaces = {} THEN limit
                    ELSE (CHOOSE p \in spaces : \A q \in spaces : q <= p) - 1
         IN SubSeq(s, 1, cut) \o <<CR>> \o trimLeft(SubSeq(s, cut + 2, Len(s)))

\* l.replace(/\r/g, "\\r") and the escaping of backslashes and quotes
mvaeLine(line) ==
    escapeWord(Concat([p \in 1..Len(wrapTwoLines(line, MAX)) |->
                         IF wrapTwoLines(line, MAX)[p] = CR
                         THEN <<BACKSLASH, "r">>
                         ELSE <<wrapTwoLines(line, MAX)[p]>>]))

\* the loop of MVAE-pt1's replaceLyricArrayInLayer computes l for every
\* line and pushes nothing to `lines`
RECURSIVE mvaeLines(_, _, _)
mvaeLines(linesArray, i, lines) ==
    IF i > Len(linesArray) THEN lines
    ELSE LET l == mvaeLine(linesArray[i])
         IN mvaeLines(linesArray, i + 1, lines)

\* re.test(expr) ? expr.replace(re, newBlock) : newBlock + "\n" + expr
replaceBlock(expr, newBlock) ==
    LET blocks == {p \in 1..Len(expr) : isBlock(expr[p])}
    IN IF blocks = {} THEN <<newBlock>> \o expr
       ELSE [expr EXCEPT ![CHOOSE p \in blocks : \A q \in blocks : p <= q] = newBlock]

\* replaceLyricArrayInLayer of MVAE-pt1.jsx
mvaeReplaceLyricArrayInLayer(expr, linesArray) ==
    replaceBlock(expr, BlockOf(mvaeLines(linesArray, 1, <<>>)))

\* replaceLyricArrayInLayer of Main.jsx: pieces.push('"' + s + '"')
replaceLyricArrayInLayer(expr, linesArray) ==
    replaceBlock(expr, BlockOf([i \in 1..Len(linesArray) |-> escapeWord(linesArray[i])]))

\* pushLyricsToCarousel of MVAE-pt1.jsx: a missing layer is passed over
RECURSIVE mvaePushLyricsToCarousel(_, _, _)
mvaePushLyricsToCarousel(layers, arr, i) ==
    IF i > Len(CarouselLayers) THEN layers
    ELSE LET name == CarouselLayers[i]
         IN mvaePushLyricsToCarousel(
               IF layers[name] # <<>>
               THEN [layers EXCEPT ![name] =
                        <<mvaeReplaceLyricArrayInLayer(layers[name][1], arr)>>]
               ELSE layers,
               arr, i + 1)

\* pushLyricsToCarousel of Main.jsx: a missing layer throws, the layers
\* before it are already written
RECURSIVE pushLyricsToCarousel(_, _, _)
pushLyricsToCarousel(layers, linesArray, i) ==
    IF i > Len(CarouselLayers) THEN [layers |-> layers, thrown |-> FALSE]
    ELSE LET name == CarouselLayers[i]
         IN IF layers[name] = <<>> THEN [layers |-> layers, thrown |-> TRUE]
            ELSE pushLyricsToCarousel(
                    [layers EXCEPT ![name] =
                        <<replaceLyricArrayInLayer(layers[name][1], linesArray)>>],
                    linesArray, i + 1)

\* the entry addToRenderQueue of MVAE-pt1.jsx adds: renders/job_NNN.mp4
\* next to the job folder
mvaeAddToRenderQueue(jobFolder, jobId) ==
    [job |-> jobId, dir |-> parentOf(jobFolder) \o <<"renders">>,
     name |-> <<"j", "o", "b", "_">> \o pad3(jobId)]

\* the lines of a job's lyrics file
LineInputs ==
    { <<>>,
      << Hello >>,
      << HelloWorld, ShortVocab[3] \o <<SP>> \o ShortVocab[4] >>,
      << Vocab("long", 1) \o <<SP>> \o Vocab("long", 3) \o <<SP>> \o Hello,
         ShortVocab[5], Hello \o <<CR>> \o ShortVocab[2] >> }

\* the Source Text expressions of the template's carousel layers
TemplateExpressions ==
    { <<>>, <<OtherCode>>, <<LyricsBlock(<<Hello>>), OtherCode>>,
      <<OtherCode, LyricsBlock(<<>>), OtherCode>> }

\* the carousel of a LYRIC FONT comp: every layer, or one layer missing
TemplateLayers ==
    { [name \in {CarouselLayers[i] : i \in 1..Len(CarouselLayers)} |->
         IF name = gone THEN <<>> ELSE <<expr>>] :
        expr \in TemplateExpressions,
        gone \in {"none", "LYRIC CURRENT"} }

Jobs1toN(k, noMedia, ls) ==
    [n \in 1..k |-> [job_id |-> n, job_folder |-> JobFolder(n),
                      media |-> (n # noMedia), lines |-> ls]]

\* job folders 1..k in order; the audio or cover of one job may be missing
JobFolders ==
    { Jobs1toN(k, noMedia, ls) :
        k \in 0..MaxJobs, noMedia \in 0..1, ls \in LineInputs }

CompNames == {"OUTPUT", "LYRIC FONT"} \X (1..MaxJobs)

\* the project as the template leaves it: MAIN, and for every job slot the
\* comps OUTPUT n and LYRIC FONT n, of which one may be missing
Projects ==
    { [comps |-> CompNames \ gone,
       layers |-> [n \in 1..MaxJobs |-> ly],
       duplicates |-> {},
       workAreas |-> {},
       renderQueue |-> <<>>] :
        gone \in {{}} \cup {{c} : c \in CompNames}, ly \in TemplateLayers }

BatchIdle == [status |-> "idle", j |-> 0, undoOpen |-> FALSE]
SingleIdle(ly) == [status |-> "idle", layers |-> ly, lines |-> <<>>]

\* no batch is run while frames are rendered
NoBatch ==
    /\ jobFiles = <<>>
    /\ project = [comps |-> {}, layers |-> <<>>, duplicates |-> {},
                  workAreas |-> {}, renderQueue |-> <<>>]
    /\ batch = [status |-> "off", j |-> 0, undoOpen |-> FALSE]
    /\ single = [status |-> "off", layers |-> <<>>, lines |-> <<>>]

\* main of MVAE-pt1.jsx up to the loop: the undo group is opened, the jobs
\* folder is chosen (or the dialog cancelled) and searched
BatchStart ==
    /\ batch.status = "idle"
    /\ single.status = "idle"
    /\ \E chosen \in BOOLEAN :
          batch' = IF ~chosen THEN [status |-> "cancelled", j |-> 0, undoOpen |-> TRUE]
                   ELSE IF jobFiles = <<>>
                        THEN [status |-> "nojobs", j |-> 0, undoOpen |-> TRUE]
                   ELSE [status |-> "running", j |-> 1, undoOpen |-> TRUE]
    /\ UNCHANGED <<jobFiles, project, single>>
    /\ UNCHANGED <<captionVars, styleVars, keyVars>>

\* one pass of the loop of main for jsonFiles[j]
ProcessJob ==
    /\ batch.status = "running"
    /\ batch.j <= Len(jobFiles)
    /\ LET job == jobFiles[batch.j]
           id == job.job_id
           duplicated == [project EXCEPT !.duplicates = @ \cup {id}]
           lyricArea == [duplicated EXCEPT !.workAreas = @ \cup {<<"LYRIC FONT", id>>}]
           outputArea == [lyricArea EXCEPT !.workAreas = @ \cup {<<"OUTPUT", id>>}]
           pushed == [outputArea EXCEPT
                        !.layers[id] = mvaePushLyricsToCarousel(@, job.lines, 1)]
           queued == [pushed EXCEPT !.renderQueue =
                         Append(@, mvaeAddToRenderQueue(job.job_folder, id))]
       IN IF ~job.media
          THEN \* Missing audio / Missing image: continue
               /\ project' = project
               /\ batch' = [batch EXCEPT !.j = @ + 1]
          ELSE IF <<"LYRIC FONT", id>> \notin project.comps
          THEN \* setWorkAreaToAudioDuration: findCompByName throws
               /\ project' = duplicated
               /\ batch' = [batch EXCEPT !.status = "aborted"]
          ELSE IF <<"OUTPUT", id>> \notin project.comps
          THEN \* setOutputWorkAreaToAudio: findCompByName throws
               /\ project' = lyricArea
               /\ batch' = [batch EXCEPT !.status = "aborted"]
          ELSE /\ project' = queued
               /\ batch' = [batch EXCEPT !.j = @ + 1]
    /\ UNCHANGED <<jobFiles, single>>
    /\ UNCHANGED <<captionVars, styleVars, keyVars>>

\* after the loop: the alert, app.endUndoGroup()
BatchFinish ==
    /\ batch.status = "running"
    /\ batch.j > Len(jobFiles)
    /\ batch' = [batch EXCEPT !.status = "done", !.undoOpen = FALSE]
    /\ UNCHANGED <<jobFiles, project, single>>
    /\ UNCHANGED <<captionVars, styleVars, keyVars>>

\* Main.jsx, phase 2: pushLyricsToCarousel(lyricComp, parsed.linesArray)
SinglePush ==
    /\ single.status = "idle"
    /\ batch.status = "idle"
    /\ \E ls \in LineInputs :
          LET r == pushLyricsToCarousel(single.layers, ls, 1)
          IN single' = [status |-> IF r.thrown THEN "aborted" ELSE "pushed",
                        layers |-> r.layers,
                        lines |-> ls]
    /\ UNCHANGED <<jobFiles, project, batch>>
    /\ UNCHANGED <<captionVars, styleVars, keyVars>>


-----------------------------------------------------------------------------
(* The style batch scripts: Mono, Nova, installer Mono, installer Onyx *)

Scripts == {"Mono", "Nova", "InstallerMono", "Onyx"}

\* the scripts with an injected JOBS_PATH
Installed == {"InstallerMono", "Onyx"}

\* "MONO_JOB_", "NOVA_JOB_", "ONYX_JOB_"
jobPrefix(sc) ==
    CASE sc = "Nova" -> "NOVA_JOB_" [] sc = "Onyx" -> "ONYX_JOB_" [] OTHER -> "MONO_JOB_"

\* the suffix main passes to addToRenderQueue
suffixOf(sc) ==
    CASE sc = "Nova" -> <<"_", "N", "O", "V", "A">>
      [] sc = "Onyx" -> <<"_", "O", "N", "Y", "X">>
      [] OTHER -> <<>>

Unknown == <<"U", "n", "k", "n", "o", "w", "n">>
Untitled == <<"u", "n", "t", "i", "t", "l", "e", "d">>

\* the characters of the class [\/\\:*?"<>|]
Forbidden == {"/", BACKSLASH, ":", "*", "?", QUOTE, "<", ">", "|"}

\* the forbidden characters kept
sanitizeFilenameKeeping(name) ==
    IF name = <<>> THEN Untitled ELSE trim(collapseSpace(name))

\* sanitizeFilename(name); a missing title and "" are both falsy
sanitizeFilename(name) ==
    IF name = <<>> THEN Untitled
    ELSE trim(collapseSpace(SelectSeq(name, LAMBDA ch : ch \notin Forbidden)))

\* safeTitle + (suffix || "")
fileName(jobId, songTitle, suffix) == sanitizeFilename(songTitle) \o suffix

\* addToRenderQueue(comp, jobFolder, jobId, songTitle, suffix): the entry of
\* the render queue, its output file being dir/name.mp4
addToRenderQueue(j, jobFolder, jobId, songTitle, suffix) ==
    [job |-> j, dir |-> parentOf(jobFolder) \o <<"renders">>,
     name |-> fileName(jobId, songTitle, suffix)]

\* clearAllJobComps(): the comps whose name starts with the script's prefix go
clearAllJobComps(comps, sc) == SelectSeq(comps, LAMBDA c : c.prefix # jobPrefix(sc))

\* song titles of the job data; <<>> is a missing or empty title
Titles ==
    { <<>>,
      Hello,
      <<SP>> \o Hello \o <<":", SP, SP>> \o ShortVocab[2] \o <<"?", SP>>,
      <<"a", "/", "b", BACKSLASH, "c">>,
      <<"?", "?">>,
      <<SP, SP>> }

\* what can be wrong with a job folder
Flaws == {"none", "unreadable", "noaudio"}

\* the jobs of a folder: job n sits in jobs/job_00n; every job after the
\* first has the first job's title or a title of its own
StyleJobs ==
    { [n \in 1..k |->
         [folder |-> JobFolder(n),
          readable |-> ~(n = flawed /\ flaw = "unreadable"),
          audio |-> ~(n = flawed /\ flaw = "noaudio"),
          job_id |-> IF ids THEN <<n>> ELSE <<>>,
          song_title |-> IF n = 1 \/ same THEN title ELSE HelloWorld]] :
        k \in 0..MaxJobs, flawed \in 1..2, flaw \in Flaws, ids \in BOOLEAN,
        same \in BOOLEAN, title \in Titles }

\* the job comps an earlier run left in the project
OldJobComps ==
    { <<>> } \cup { <<[prefix |-> jobPrefix(sc), number |-> pad3(1), job |-> 0]>> : sc \in Scripts }

\* the template's comps, of which one may be missing
StyleProjects ==
    { [comps |-> CompNames \ gone, jobComps |-> old, renderQueue |-> <<>>] :
        gone \in {{}} \cup {{c} : c \in CompNames}, old \in OldJobComps }

RunIdle == [status |-> "idle", j |-> 0, undoOpen |-> FALSE]

-----------------------------------------------------------------------------
(* Marker keys and beat keys *)

\* mk.setValueAtTime(t, v): the key at t is written over
setValueAtTime(keys, t, v) == {key \in keys : key[1] # t} \cup {<<t, v>>}

\* the loop left out: the keys that were there stay
removeNoKey(keys) == keys

\* for (var i = mk.numKeys; i >= 1; i--) mk.removeKey(i)
removeKeys(keys) == {}

\* addMonoMarkersToAudio and addMonoMarkersToBackground of Mono,
\* setAudioMarkersFromTArray of the batch script: the key of marker k is
\* set at Number(m.time) || 0; a key holds the number of its marker
RECURSIVE setMarkers(_, _, _)
setMarkers(keys, ms, k) ==
    IF k > Len(ms) THEN keys
    ELSE setMarkers(setValueAtTime(keys, OrElse(ms[k].time, 0), k), ms, k + 1)

addMarkersToAudio(keys, ms) == setMarkers(removeKeys(keys), ms, 1)

\* the installer's loop: a marker not later than the last key goes 0.01 s
\* after that key
RECURSIVE setMarkersApart(_, _, _, _)
setMarkersApart(keys, ms, k, lastT) ==
    IF k > Len(ms) THEN keys
    ELSE LET t == OrElse(ms[k].time, 0)
         IN IF t > lastT
            THEN setMarkersApart(setValueAtTime(keys, t, k), ms, k + 1, t)
            ELSE setMarkersApart(setValueAtTime(keys, lastT + 1, k), ms, k + 1, lastT + 1)

\* addMonoMarkersToAudio and addMonoMarkersToBackground of the installer
instAddMarkers(keys, ms) == setMarkersApart(removeKeys(keys), ms, 1, 0)

MarkerSteps == {"MonoAudio", "MonoBackground", "BatchAudio", "InstallerAudio",
                "InstallerBackground"}

\* the step's function applied to the layer's keys
markerStep(fn, keys, ms) ==
    IF fn \in {"InstallerAudio", "InstallerBackground"}
    THEN instAddMarkers(keys, ms)
    ELSE addMarkersToAudio(keys, ms)

\* the keys a template or an earlier job left on the layer; 0 marks them
OldMarkerKeys == { {}, {<<0, 0>>, <<7, 0>>, <<130, 0>>} }

PEAK == 75
BASE == 15

\* comp.frameRate of the OUTPUT comps
FrameRates == {25, 50}

\* 1 / comp.frameRate, in centiseconds
oneFrame(frameRate) == 100 \div frameRate

\* a base key before every next beat, however close the beats are
baseAlways(tBase, t) == TRUE

\* if (tBase > t)
baseLater(tBase, t) == tBase > t

RECURSIVE beatLoop(_, _, _, _)
beatLoop(keys, beatsArray, i, frame) ==
    IF i > Len(beatsArray) - 1 THEN keys
    ELSE LET t == beatsArray[i]
             nextT == beatsArray[i + 1]
             peaked == setValueAtTime(keys, t, PEAK)
             tBase == nextT - frame
         IN beatLoop(IF baseLater(tBase, t) THEN setValueAtTime(peaked, tBase, BASE)
                     ELSE peaked,
                     beatsArray, i + 1, frame)

\* applyBeatSync(jobId, beatsArray) on the keys of the light's intensity
applyBeatSync(keys, beatsArray, frameRate) ==
    IF Len(beatsArray) < 2 THEN keys
    ELSE setValueAtTime(beatLoop(removeKeys(keys), beatsArray, 1, oneFrame(frameRate)),
                        beatsArray[Len(beatsArray)], PEAK)

\* beat times of the job data: none, one, far apart, a frame apart, closer
BeatInputs ==
    { <<>>, <<BeatStart>>, <<BeatStart, BeatStart + 20>>,
      <<0, 4, 8, 40>>, <<BeatStart, BeatStart + 1, BeatStart + 3, BeatStart + 30>>,
      <<BeatStart + 20, BeatStart>> }

OldIntensityKeys == { {}, {<<5, 50>>, <<BeatStart, 100>>} }

\* no marker or light key is set
NoKeys ==
    /\ markerKeys = [keys |-> {}, by |-> "none", runs |-> 0]
    /\ intensityKeys = [keys |-> {}, beats |-> <<>>, frameRate |-> 0, runs |-> 0]

\* the marker-injection step of a script, run (again) on the job's markers
InjectMarkers(fn) ==
    /\ markerKeys.by \in {"none", fn}
    /\ markerKeys.runs < MaxRuns
    /\ markerKeys' = [keys |-> markerStep(fn, markerKeys.keys, markers),
                      by |-> fn, runs |-> markerKeys.runs + 1]
    /\ UNCHANGED intensityKeys
    /\ UNCHANGED <<captionVars, batchVars, styleVars>>

\* applyBeatSync(jobData.job_id, jobData.beats)
BeatSync ==
    /\ intensityKeys.runs < MaxRuns
    /\ \E beatsArray \in BeatInputs, frameRate \in FrameRates :
          intensityKeys' = [keys |-> applyBeatSync(intensityKeys.keys, beatsArray, frameRate),
                            beats |-> beatsArray, frameRate |-> frameRate,
                            runs |-> intensityKeys.runs + 1]
    /\ UNCHANGED markerKeys
    /\ UNCHANGED <<captionVars, batchVars, styleVars>>

\* no style script is run
NoStyle ==
    /\ script = "none"
    /\ jobsFolder = [picked |-> "cancel", jobs |-> <<>>]
    /\ ae = [comps |-> {}, jobComps |-> <<>>, renderQueue |-> <<>>]
    /\ styleRun = [status |-> "off", j |-> 0, undoOpen |-> FALSE]

\* main up to the loop: beginUndoGroup, clearAllJobComps, the jobs folder
\* (dialog or JOBS_PATH), the search for the jobs' JSON files
StyleStart ==
    /\ styleRun.status = "idle"
    /\ ae' = [ae EXCEPT !.jobComps = clearAllJobComps(@, script)]
    /\ styleRun' = IF jobsFolder.picked = "cancel"
              THEN [status |-> "cancelled", j |-> 0, undoOpen |-> TRUE]
              ELSE IF jobsFolder.picked = "missing"
              THEN [status |-> "nofolder", j |-> 0, undoOpen |-> TRUE]
              ELSE IF jobsFolder.jobs = <<>>
              THEN [status |-> "nojobs", j |-> 0, undoOpen |-> TRUE]
              ELSE [status |-> "running", j |-> 1, undoOpen |-> TRUE]
    /\ UNCHANGED <<script, jobsFolder>>
    /\ UNCHANGED <<captionVars, batchVars, keyVars>>

\* one pass of the loop of main for jsonFiles[j]
StyleJob ==
    /\ styleRun.status = "running"
    /\ styleRun.j <= Len(jobsFolder.jobs)
    /\ LET job == jobsFolder.jobs[styleRun.j]
           jobId == OrElse(job.job_id, styleRun.j)
           songTitle == IF job.song_title = <<>> THEN Unknown ELSE job.song_title
           newComp == [prefix |-> jobPrefix(script), number |-> pad3(jobId), job |-> styleRun.j]
           duplicated == [ae EXCEPT !.jobComps = Append(@, newComp)]
           queued == [duplicated EXCEPT !.renderQueue =
                         Append(@, addToRenderQueue(styleRun.j, job.folder, jobId,
                                                    songTitle, suffixOf(script)))]
       IN ae' = IF ~job.readable \/ ~job.audio THEN ae
                ELSE IF <<"LYRIC FONT", jobId>> \notin ae.comps THEN duplicated
                ELSE IF <<"OUTPUT", jobId>> \notin ae.comps THEN duplicated
                ELSE queued
    /\ styleRun' = [styleRun EXCEPT !.j = @ + 1]
    /\ UNCHANGED <<script, jobsFolder>>
    /\ UNCHANGED <<captionVars, batchVars, keyVars>>

\* after the loop: the alert, app.endUndoGroup()
StyleFinish ==
    /\ styleRun.status = "running"
    /\ styleRun.j > Len(jobsFolder.jobs)
    /\ styleRun' = [styleRun EXCEPT !.status = "done", !.undoOpen = FALSE]
    /\ UNCHANGED <<script, jobsFolder, ae>>
    /\ UNCHANGED <<captionVars, batchVars, keyVars>>

-----------------------------------------------------------------------------
(* The sampler: the host renders one frame at a time, in any order *)

outs == <<monoText, novaText, onyxText, instMonoText, blur, opacity, tagOpacity>>

\* Every injected expression is evaluated for the frame at time t
Render(t, i) ==
    /\ time' = t
    /\ segIndex' = i
    /\ monoText' = monoExpression(segments, i, t)
    /\ novaText' = novaExpression(novaSegments, i, t)
    /\ onyxText' = onyxExpression(segmentsCode, t)
    /\ instMonoText' = instMonoExpression(segmentsCode, t)
    /\ blur' = blurExpression(segments, i, t)
    /\ opacity' = opacityExpression(segments, i, t)
    /\ tagOpacity' = tagOpacityExpression(segments, i, t)
    /\ UNCHANGED <<lyricsData, markers, segments, novaSegments, segmentsCode>>
    /\ UNCHANGED <<batchVars, styleVars, keyVars>>

\* The expressions are injected; no frame has been rendered yet (time = -1)
Injected ==
    /\ segments = buildSegmentsArrayStringWithEnds(markers)
    /\ novaSegments = buildSegmentsArrayString(markers)
    /\ segmentsCode = buildSegmentsCode(markers)
    /\ time = -1
    /\ segIndex = 0
    /\ monoText = <<>>
    /\ novaText = <<>>
    /\ onyxText = <<>>
    /\ instMonoText = <<>>
    /\ blur = 0
    /\ opacity = <<0>>
    /\ tagOpacity = <<0>>
    /\ ref = <<>>

InitOn(jobs) ==
    /\ lyricsData = <<>>
    /\ markers \in jobs
    /\ Injected
    /\ NoBatch
    /\ NoStyle
    /\ NoKeys

\* the installer scripts read lyrics.txt and convert it to markers
InitLyrics ==
    /\ lyricsData \in LyricsInputs
    /\ markers = convertLyricsToMarkers(lyricsData)
    /\ Injected
    /\ NoBatch
    /\ NoStyle
    /\ NoKeys

Init == InitOn(Jobs) \/ InitLyrics

SegIndexes == 0..(Len(segments) + 1)

\* the remembered frame notes that the sampler has been somewhere else
Track ==
    ref' = IF ref # <<>> /\ (time' # ref[1].time \/ segIndex' # ref[1].segIndex)
           THEN <<[ref[1] EXCEPT !.away = TRUE]>>
           ELSE ref

PlayForward(limit) ==
    /\ time < limit
    /\ Render(time + 1, segIndex)
    /\ Track

StepBack ==
    /\ time > 0
    /\ Render(time - 1, segIndex)
    /\ Track

Seek(limit) ==
    /\ time >= 0
    /\ \E t \in {0, limit} : Render(t, segIndex)
    /\ Track

ControlChange ==
    /\ time >= 0
    /\ \E i \in SegIndexes : i # segIndex /\ Render(time, i)
    /\ Track

Next == PlayForward(MaxTime) \/ StepBack \/ Seek(MaxTime) \/ ControlChange

Spec == Init /\ [][Next]_vars

\* one job, and a frame that is remembered to compare later frames with
PureJobs ==
    { << Marker(0, <<>>, MarkerWords("short", 2, 0, WordGap), Hello),
         Marker(MaxRefTime - WordGap, <<>>,
                MarkerWords("long", 2, MaxRefTime - WordGap, WordGap), Hello) >> }

Remember ==
    /\ time >= 0
    /\ ref = <<>>
    /\ ref' = <<[time |-> time, segIndex |-> segIndex, outs |-> outs,
                 timeline |-> <<segments, novaSegments, segmentsCode>>,
                 away |-> FALSE]>>
    /\ UNCHANGED <<lyricsData, markers, segments, novaSegments, segmentsCode, time, segIndex,
                   monoText, novaText, onyxText, instMonoText, blur, opacity,
                   tagOpacity>>
    /\ UNCHANGED <<batchVars, styleVars, keyVars>>

InitPure == InitOn(PureJobs)

NextPure ==
    PlayForward(MaxRefTime) \/ StepBack \/ Seek(MaxRefTime) \/ ControlChange
        \/ Remember

SpecPure == InitPure /\ [][NextPure]_vars

\* a run of the batch script and of the single-job script on a project
InitBatch ==
    /\ lyricsData = <<>>
    /\ markers = <<>>
    /\ Injected
    /\ jobFiles \in JobFolders
    /\ project \in Projects
    /\ batch = BatchIdle
    /\ single = SingleIdle(project.layers[1])
    /\ NoStyle
    /\ NoKeys

NextBatch == BatchStart \/ ProcessJob \/ BatchFinish \/ SinglePush

SpecBatch == InitBatch /\ [][NextBatch]_vars

\* a run of one of the style batch scripts on a jobs folder and a project
InitStyle ==
    /\ lyricsData = <<>>
    /\ markers = <<>>
    /\ Injected
    /\ NoBatch
    /\ NoKeys
    /\ script \in Scripts
    /\ jobsFolder \in
          { [picked |-> pk, jobs |-> IF pk = "ok" THEN js ELSE <<>>] :
              pk \in {"cancel", "ok"} \cup (IF script \in Installed THEN {"missing"} ELSE {}),
              js \in StyleJobs }
    /\ ae \in StyleProjects
    /\ styleRun = RunIdle

NextStyle == StyleStart \/ StyleJob \/ StyleFinish

\* the steps that set keys, on the markers of a job and the beats of a job
InitKeys ==
    /\ lyricsData = <<>>
    /\ markers \in KeyJobs
    /\ Injected
    /\ NoBatch
    /\ NoStyle
    /\ markerKeys \in {[keys |-> old, by |-> "none", runs |-> 0] : old \in OldMarkerKeys}
    /\ intensityKeys \in {[keys |-> old, beats |-> <<>>, frameRate |-> 0, runs |-> 0] :
                             old \in OldIntensityKeys}

NextKeys == (\E fn \in MarkerSteps : InjectMarkers(fn)) \/ BeatSync

SpecKeys == InitKeys /\ [][NextKeys]_vars

\* one run of any of the batch scripts
InitScripts == InitBatch \/ InitStyle

NextScripts == NextBatch \/ NextStyle

SpecScripts == InitScripts /\ [][NextScripts]_vars

-----------------------------------------------------------------------------
(* What the properties are stated with *)

WordsOf(text) == Split(text, Separators)

\* the words of a Mono/Nova segment that have started at t, in list order
Started(seg, t) ==
    LET sel == SelectSeq(seg.words, LAMBDA x : x.s <= t)
    IN [k \in 1..Len(sel) |-> sel[k].w]

\* the same for a segment of the Onyx / installer array
StartedCode(seg, t) ==
    LET sel == SelectSeq(seg.words, LAMBDA x : x.start <= t)
    IN [k \in 1..Len(sel) |-> sel[k].word]

\* the highest index whose segment has started at t, 0 if there is none
Active(segs, t) ==
    LET started == {i \in 1..Len(segs) : segs[i].time <= t}
    IN IF started = {} THEN 0 ELSE CHOOSE i \in started : \A k \in started : k <= i

Rendered == time >= 0
MonoActive == Rendered /\ segIndex \in 1..Len(segments)

IsHelloWorldSeg(seg) ==
    /\ Len(seg.words) = 2
    /\ seg.words[1] = [w |-> Hello, s |-> 0]
    /\ seg.words[2] = [w |-> <<"w","o","r","l","d">>, s |-> 50]

-----------------------------------------------------------------------------
(* C1: while a segment with words is active, the visible text, read with   *)
(* its line breaks as word separators, is exactly the sequence of the      *)
(* segment's words whose start is <= time, in list order (Mono, Nova, Onyx *)
(* and installer Mono); hello@0 world@0.5 shows "hello" at 0.2 and         *)
(* "hello world" at 0.6.                                                   *)
C1_VisibleWords ==
    /\ MonoActive =>
          /\ WordsOf(monoText) = Started(segments[segIndex], time)
          /\ WordsOf(novaText) = Started(novaSegments[segIndex], time)
          /\ IsHelloWorldSeg(segments[segIndex]) /\ time = 20 => monoText = Hello
          /\ IsHelloWorldSeg(segments[segIndex]) /\ time = 60 => monoText = HelloWorld
    /\ Rendered =>
          LET c == Active(segmentsCode, time)
          IN c # 0 /\ Len(segmentsCode[c].words) > 0 =>
                /\ WordsOf(onyxText) = StartedCode(segmentsCode[c], time)
                /\ WordsOf(instMonoText) = StartedCode(segmentsCode[c], time)

C1_Witness ==
    /\ MonoActive
    /\ IsHelloWorldSeg(segments[segIndex])
    /\ time = 60
    /\ monoText = HelloWorld
    /\ onyxText = HelloWorld

(* C2: the segment locator returns, for every timeline and every time, the *)
(* highest-index segment whose start is <= time, and none (0) when the     *)
(* timeline is empty or time is before the first start; of segments that   *)
(* share a start time the later one is returned.                           *)
C2_Locator ==
    Rendered =>
       LET c == currentSeg(segmentsCode, time, Len(segmentsCode))
       IN /\ c = Active(segmentsCode, time)
          /\ c \in 0..Len(segmentsCode)
          /\ segmentsCode = <<>> => c = 0
          /\ (segmentsCode # <<>> /\ time < segmentsCode[1].time) => c = 0
          /\ \A i \in 1..Len(segmentsCode) :
                (segmentsCode[i].time <= time) => c >= i

C2_Witness ==
    /\ Rendered
    /\ Len(segmentsCode) >= 2
    /\ segmentsCode[1].time = segmentsCode[2].time
    /\ time >= segmentsCode[2].time
    /\ time < segmentsCode[3].time
    /\ currentSeg(segmentsCode, time, Len(segmentsCode)) = 2
    /\ onyxText # <<>>
    /\ WordsOf(onyxText) = StartedCode(segmentsCode[2], time)

\* the words rw laid out wpl to a line: brk before word k*wpl + 1, a space
\* before every other word but the first
ExpectedLayout(rw, wpl, brk) ==
    Concat([k \in 1..Len(rw) |->
              (IF k = 1 THEN <<>>
               ELSE IF (k - 1) % wpl = 0 THEN <<brk>> ELSE <<SP>>) \o rw[k]])

LinesOf(text) == Split(text, {CR, LF})
LineWords(line) == Split(line, {SP})

CodeActive == Rendered /\ Active(segmentsCode, time) # 0
                       /\ Len(segmentsCode[Active(segmentsCode, time)].words) > 0
ActiveCodeSeg == segmentsCode[Active(segmentsCode, time)]

(* C3 as claimed: the revealed words are laid out wordsPerLine to a line,  *)
(* 4 in every Mono script (Apollova-Mono and installer Mono) and 3 in      *)
(* Onyx, so no line holds more than wordsPerLine words.                    *)
C3_AsClaimed ==
    /\ MonoActive =>
          monoText = ExpectedLayout(Started(segments[segIndex], time), wordsPerLine, CR)
    /\ CodeActive =>
          /\ onyxText = ExpectedLayout(StartedCode(ActiveCodeSeg, time),
                                       onyxWordsPerLine, LF)
          /\ \A k \in 1..Len(LinesOf(instMonoText)) :
                Len(LineWords(LinesOf(instMonoText)[k])) <= wordsPerLine

(* C3 amended: Apollova-Mono lays the revealed words out 4 to a line and   *)
(* Onyx 3 to a line (a line break after every full line, one space between *)
(* every other adjacent pair); the installer Mono script breaks no line:   *)
(* it shows all revealed words on one line, one space apart.               *)
C3_Layout ==
    /\ MonoActive =>
          /\ monoText = ExpectedLayout(Started(segments[segIndex], time), wordsPerLine, CR)
          /\ \A k \in 1..Len(LinesOf(monoText)) :
                Len(LineWords(LinesOf(monoText)[k])) <= wordsPerLine
    /\ CodeActive =>
          /\ onyxText = ExpectedLayout(StartedCode(ActiveCodeSeg, time),
                                       onyxWordsPerLine, LF)
          /\ \A k \in 1..Len(LinesOf(onyxText)) :
                Len(LineWords(LinesOf(onyxText)[k])) <= onyxWordsPerLine
          /\ instMonoText = join(StartedCode(ActiveCodeSeg, time), <<SP>>)

C3_Witness ==
    /\ MonoActive
    /\ CodeActive
    /\ Len(LinesOf(monoText)) = 2
    /\ Len(LineWords(LinesOf(monoText)[1])) = wordsPerLine
    /\ Len(LinesOf(onyxText)) = 2
    /\ Len(LineWords(LinesOf(onyxText)[1])) = onyxWordsPerLine
    /\ Len(LinesOf(instMonoText)) = 1
    /\ Len(LineWords(instMonoText)) > wordsPerLine

(* C4: no line of the Nova text is longer than 25 characters unless it is  *)
(* one single word longer than 25; a word longer than 25 is never split    *)
(* and stands alone on its line.                                           *)
C4_NovaLines ==
    MonoActive =>
       LET lines == LinesOf(novaText)
       IN /\ \A k \in 1..Len(lines) :
                /\ Len(lines[k]) > maxLen => Len(LineWords(lines[k])) = 1
                /\ \A j \in 1..Len(LineWords(lines[k])) :
                      Len(LineWords(lines[k])[j]) > maxLen
                         => Len(LineWords(lines[k])) = 1
          /\ WordsOf(novaText) = Started(novaSegments[segIndex], time)

C4_Witness ==
    /\ MonoActive
    /\ \E k \in 1..Len(LinesOf(novaText)) :
          /\ k > 1 /\ k < Len(LinesOf(novaText))
          /\ Len(LinesOf(novaText)[k]) > maxLen
    /\ \E k \in 1..Len(LinesOf(novaText)) :
          /\ Len(LinesOf(novaText)[k]) = maxLen
          /\ Len(LineWords(LinesOf(novaText)[k])) = 2

ToSet(seq) == {seq[k] : k \in 1..Len(seq)}

Grows(text1, text2) ==
    /\ ToSet(WordsOf(text1)) \subseteq ToSet(WordsOf(text2))
    /\ Len(WordsOf(text1)) <= Len(WordsOf(text2))

(* C5: while the same segment stays active, a frame at a later time shows  *)
(* every word the earlier frame showed: the revealed words at t1 are       *)
(* among the revealed words at t2 for t1 < t2 (Mono, Nova, Onyx).          *)
C5_Monotonic ==
    [][ (Rendered /\ time' > time /\ segIndex' = segIndex) =>
           /\ Grows(monoText, monoText')
           /\ Grows(novaText, novaText')
           /\ (Active(segmentsCode, time') = Active(segmentsCode, time) /\ CodeActive)
                 => Grows(onyxText, onyxText') ]_vars

C5_Witness ==
    /\ MonoActive
    /\ Len(segments[segIndex].words) >= 3
    /\ Len(WordsOf(monoText)) = 2
    /\ time >= segments[segIndex].words[1].s + wordFadeTime
    /\ WordsOf(monoText)[1] = segments[segIndex].words[1].w

\* the Segment invariant of the data model, on the Onyx / installer array
WellFormedCode(segs) ==
    \A i \in 1..Len(segs) :
       /\ Len(segs[i].words) > 0
       /\ segs[i].words[1].start >= segs[i].time
       /\ \A j \in 1..(Len(segs[i].words) - 1) :
             segs[i].words[j].start <= segs[i].words[j + 1].start
       /\ i < Len(segs) =>
             segs[i + 1].time > segs[i].words[Len(segs[i].words)].start

\* the same on the Mono / Nova array
WellFormed(segs) ==
    \A i \in 1..Len(segs) :
       /\ Len(segs[i].words) > 0
       /\ segs[i].words[1].s >= segs[i].t
       /\ \A j \in 1..(Len(segs[i].words) - 1) :
             segs[i].words[j].s <= segs[i].words[j + 1].s
       /\ i < Len(segs) => segs[i + 1].t > segs[i].words[Len(segs[i].words)].s

Fading(seg, t) ==
    {i \in 1..Len(seg.words) : seg.words[i].s <= t /\ t < seg.words[i].s + wordFadeTime}

\* wordFadeTime * Scale * 15 * (1 - (t - start) / 0.12)
FadeValue(seg, i, t) == Scale * wordBlurMax * (wordFadeTime - (t - seg.words[i].s))

(* C8: the reveal blur at time t is the maximum, over the active segment's *)
(* words w with start(w) <= t < start(w) + 0.12, of                        *)
(* 15 * (1 - (t - start(w)) / 0.12), and 0 when no word is in its window;  *)
(* it is 15 at a word's start instant and always lies in [0, 15].          *)
C8_Blur ==
    /\ Rendered => blur >= 0 /\ blur <= Scale * wordBlurMax
    /\ MonoActive =>
          LET seg == segments[segIndex]
          IN /\ Fading(seg, time) = {} => blur = 0
             /\ Fading(seg, time) # {} =>
                   /\ \E i \in Fading(seg, time) : blur * wordFadeTime = FadeValue(seg, i, time)
                   /\ \A i \in Fading(seg, time) : blur * wordFadeTime >= FadeValue(seg, i, time)
             /\ (\E i \in 1..Len(seg.words) : seg.words[i].s = time)
                   => blur = Scale * wordBlurMax

C8_Witness ==
    /\ MonoActive
    /\ Cardinality(Fading(segments[segIndex], time)) >= 2
    /\ \E i, j \in Fading(segments[segIndex], time) :
          FadeValue(segments[segIndex], i, time) < FadeValue(segments[segIndex], j, time)
    /\ blur > 0
    /\ blur < Scale * wordBlurMax

\* the segment at segIndex has words and a successor
HasNext == MonoActive /\ segIndex < Len(segments) /\ Len(segments[segIndex].words) > 0
LastWordTime ==
    segments[segIndex].words[Len(segments[segIndex].words)].s + lastWordHold
NextSegStart == segments[segIndex + 1].t

(* C9: for a segment whose successor starts later than L + 0.15, with      *)
(* L = lastWordStart + 0.3, the lyric opacity is 100 up to and including   *)
(* L, is 100 * (1 - (t - L) / 0.15) for L < t < L + 0.15, is 0 for         *)
(* L + 0.15 <= t < next start, and is 100 again from the next start.       *)
C9_OpacityFade ==
    (HasNext /\ NextSegStart > LastWordTime + fadeDur) =>
       /\ time <= LastWordTime => opacity = <<Scale * 100>>
       /\ (time > LastWordTime /\ time < LastWordTime + fadeDur) =>
             /\ opacity # <<>>
             /\ opacity[1] * fadeDur = Scale * 100 * (fadeDur - (time - LastWordTime))
       /\ (time >= LastWordTime + fadeDur /\ time < NextSegStart) => opacity = <<0>>
       /\ time >= NextSegStart => opacity = <<Scale * 100>>

C9_Witness ==
    /\ HasNext
    /\ NextSegStart > LastWordTime + fadeDur
    /\ time > LastWordTime
    /\ time < LastWordTime + fadeDur
    /\ opacity[1] > 0
    /\ opacity[1] < Scale * 100

ShortGap == HasNext /\ NextSegStart - LastWordTime < tagMinGap

(* C10 as claimed: when the gap between the last word plus 0.3 s and the   *)
(* next segment's start is shorter than the short-gap threshold, the lyric *)
(* opacity is 100 at every time from the segment's start until the next    *)
(* segment's start.                                                        *)
C10_AsClaimed ==
    (ShortGap /\ time >= segments[segIndex].t /\ time < NextSegStart)
       => opacity = <<Scale * 100>>

(* C10 amended: when that gap is shorter than the 0.5 s threshold it is    *)
(* the tag that is not shown: the TAG_TEXT opacity is 0 at every time.     *)
(* The lyric opacity is 100 up to and including L = lastWordStart + 0.3    *)
(* and still fades after it: 100 * (1 - (t - L) / 0.15) for                *)
(* L < t < L + 0.15, however short the gap is.                             *)
C10_ShortGap ==
    ShortGap =>
       /\ tagOpacity = <<0>>
       /\ time <= LastWordTime => opacity = <<Scale * 100>>
       /\ (time > LastWordTime /\ time < LastWordTime + fadeDur) =>
             /\ opacity # <<>>
             /\ opacity[1] * fadeDur = Scale * 100 * (fadeDur - (time - LastWordTime))
             /\ opacity[1] < Scale * 100

C10_Witness ==
    /\ ShortGap
    /\ NextSegStart - LastWordTime < fadeDur
    /\ time > LastWordTime
    /\ time < NextSegStart
    /\ opacity[1] < Scale * 100
    /\ tagOpacity = <<0>>

InRange(op) == op # <<>> => op[1] >= 0 /\ op[1] <= Scale * 100

(* C11: the lyric opacity and the tag opacity that the evaluators return   *)
(* lie in [0, 100], for every timeline, segment index and time.            *)
C11_OpacityRange ==
    Rendered => InRange(opacity) /\ InRange(tagOpacity)

C11_Witness ==
    /\ HasNext
    /\ opacity # <<>> /\ opacity[1] > 0 /\ opacity[1] < Scale * 100
    /\ tagOpacity # <<>> /\ tagOpacity[1] > 0 /\ tagOpacity[1] < Scale * 100

(* C12: no evaluator raises: for every timeline, with segments whose word  *)
(* list is empty or missing and segment indexes outside 1..Len(segments),  *)
(* and for every time, the text, blur and opacity evaluators each return a *)
(* value (a text, a blur, an opacity).                                     *)
C12_NoRaise ==
    Rendered =>
       /\ opacity # <<>>
       /\ tagOpacity # <<>>
       /\ Len(monoText) >= 0 /\ Len(novaText) >= 0
       /\ Len(onyxText) >= 0 /\ Len(instMonoText) >= 0
       /\ blur >= 0

NoSpace(text) == SelectSeq(text, LAMBDA ch : ch \notin Separators)
NoCR(text) == SelectSeq(text, LAMBDA ch : ch # CR)

\* the entries of lyricsData that become markers, in order
Kept == SelectSeq([i \in 1..Len(lyricsData) |-> lyricsData[i]],
                  LAMBDA e : ~isBlank(e.text))

\* marker c has no words in the job data: none in its marker, or none (no
\* array, or an empty array) in its lyrics.txt entry
NoWordsInJob(c) ==
    IF lyricsData = <<>> THEN markers[c].words = <<>>
    ELSE Kept[c].words \in {<<>>, << <<>> >>}

LastCode == segmentsCode[Len(segmentsCode)]
AfterLastEnd ==
    /\ Rendered
    /\ segmentsCode # <<>>
    /\ LastCode.end_time # <<>>
    /\ LastCode.end_time[1] > LastCode.time
    /\ time > LastCode.end_time[1]

BeforeFirstStart ==
    /\ Rendered
    /\ segmentsCode # <<>>
    /\ \A i \in 1..Len(segmentsCode) : time < segmentsCode[i].time

(* C14 as claimed: at every time outside the timeline's range, before the  *)
(* first segment's start or after the last segment's end time, the         *)
(* evaluators return the empty text and opacity 0.                         *)
C14_AsClaimed ==
    /\ BeforeFirstStart => onyxText = <<>> /\ instMonoText = <<>>
    /\ AfterLastEnd =>
          /\ onyxText = <<>> /\ instMonoText = <<>>
          /\ segIndex = Len(segments) => monoText = <<>> /\ opacity = <<0>>

(* C14 amended: at every time before the start of every segment the Onyx   *)
(* and installer Mono text is empty, and with segment index 0 the Mono and *)
(* Nova text is empty, the blur 0 and both opacities 0.  After the last    *)
(* segment's end time the text is not emptied: the locator still returns   *)
(* the last segment and its started words (its raw text when it has no     *)
(* words) stay visible, and the lyric opacity of the last segment is 0     *)
(* exactly from L + 0.15 on, L = last word's start + 0.3, wherever the     *)
(* end time lies.                                                          *)
C14_OutOfRange ==
    /\ BeforeFirstStart => onyxText = <<>> /\ instMonoText = <<>>
    /\ (Rendered /\ segIndex = 0) =>
          /\ monoText = <<>> /\ novaText = <<>>
          /\ blur = 0 /\ opacity = <<0>> /\ tagOpacity = <<0>>
    /\ AfterLastEnd =>
          /\ Active(segmentsCode, time) = Len(segmentsCode)
          /\ Len(LastCode.words) > 0 =>
                /\ WordsOf(onyxText) = StartedCode(LastCode, time)
                /\ WordsOf(instMonoText) = StartedCode(LastCode, time)
          /\ Len(LastCode.words) = 0 => onyxText = LastCode.text
    /\ (MonoActive /\ segIndex = Len(segments) /\ Len(segments[segIndex].words) > 0) =>
          /\ opacity # <<>>
          /\ opacity = <<0>> <=> time >= LastWordTime + fadeDur

C14_Witness ==
    /\ AfterLastEnd
    /\ segIndex = Len(segments)
    /\ time > segments[segIndex].e
    /\ Len(WordsOf(onyxText)) = Len(LastCode.words)
    /\ Len(WordsOf(monoText)) = Len(LastCode.words)
    /\ Len(LastCode.words) >= 2
    /\ opacity = <<Scale * 100>>

\* a number of the job data that is not a number, or is negative
Noisy(opt) == opt = <<>> \/ opt[1] < 0

(* C15: every word start time and segment time that is negative or not a   *)
(* number in the job data appears in the built timeline as 0, and no time  *)
(* written into the timeline is negative (Mono, Nova, Onyx).               *)
C15_Clamped ==
    \A i \in 1..Len(markers) :
       /\ segments[i].t >= 0 /\ novaSegments[i].t >= 0 /\ segmentsCode[i].time >= 0
       /\ Noisy(markers[i].time) =>
             segments[i].t = 0 /\ novaSegments[i].t = 0 /\ segmentsCode[i].time = 0
       /\ \A j \in 1..Len(markers[i].words) :
             /\ segments[i].words[j].s >= 0
             /\ novaSegments[i].words[j].s >= 0
             /\ segmentsCode[i].words[j].start >= 0
             /\ Noisy(markers[i].words[j].start) =>
                   /\ segments[i].words[j].s = 0
                   /\ novaSegments[i].words[j].s = 0
                   /\ segmentsCode[i].words[j].start = 0

\* the Segment invariant of the data model, on a marker
SegmentInvariant(m) ==
    /\ m.end_time # <<>> /\ m.end_time[1] > m.time[1]
    /\ Len(m.words) > 0
    /\ \A j \in 1..(Len(m.words) - 1) : m.words[j].start[1] <= m.words[j + 1].start[1]
    /\ m.words[1].start[1] >= m.time[1]

\* lyrics.txt entries at strictly increasing times, each with its words
\* supplied (not an empty array) or left to be made from its text
IncreasingLyrics ==
    /\ lyricsData # <<>>
    /\ \A i \in 1..Len(lyricsData) : lyricsData[i].words # << <<>> >>
    /\ \A i \in 1..(Len(lyricsData) - 1) :
          OrElse(lyricsData[i].t, OrElse(lyricsData[i].time, 0))
             < OrElse(lyricsData[i + 1].t, OrElse(lyricsData[i + 1].time, 0))

(* C16: every segment emitted by convertLyricsToMarkers for a lyrics input *)
(* with strictly increasing entry times satisfies the Segment invariant:   *)
(* end_time > time, a non-empty word list, non-decreasing word starts and  *)
(* a first word that starts at or after the segment's time, whether the    *)
(* entry gives its time as `t` or as `time` and whether its words are      *)
(* supplied or synthesized.                                                *)
C16_SegmentInvariant ==
    IncreasingLyrics => \A c \in 1..Len(markers) : SegmentInvariant(markers[c])

\* the positions in lyricsData of the entries that become markers
KeptAt == SelectSeq([i \in 1..Len(lyricsData) |-> i],
                    LAMBDA i : ~isBlank(lyricsData[i].text))

NoEnd(m) == m.end_time = <<>> \/ m.end_time = <<0>>

(* C17 as claimed: a segment that carries no end_time gets the end time    *)
(* start + 5 s in every script that builds the timeline (Apollova-Mono,    *)
(* installer Onyx / Mono, convertLyricsToMarkers).                         *)
C17_AsClaimed ==
    /\ \A i \in 1..Len(markers) :
          NoEnd(markers[i]) =>
             /\ segments[i].e = segments[i].t + 500
             /\ segmentsCode[i].end_time = <<segmentsCode[i].time + 500>>
    /\ lyricsData # <<>> =>
          \A c \in 1..Len(markers) : markers[c].end_time = <<markers[c].time[1] + 500>>

(* C17 amended: a marker without an end_time (or with end_time 0) gets the *)
(* end time start + 5 s in Apollova-Mono and its time + 3 s in the         *)
(* installer's Onyx / Mono timeline (not a number when its time is         *)
(* missing); a given end_time is written as it is.  convertLyricsToMarkers *)
(* sets every marker's end_time: the next entry's time (`t`, else `time`), *)
(* and the marker's time + 3 s for the last entry or when the next entry   *)
(* has no time.                                                            *)
C17_DefaultEnd ==
    /\ \A i \in 1..Len(markers) :
          /\ NoEnd(markers[i]) =>
                /\ segments[i].e = segments[i].t + 500
                /\ markers[i].time # <<>> =>
                      segmentsCode[i].end_time = <<markers[i].time[1] + 300>>
                /\ markers[i].time = <<>> => segmentsCode[i].end_time = <<>>
          /\ ~NoEnd(markers[i]) =>
                /\ segments[i].e = markers[i].end_time[1]
                /\ segmentsCode[i].end_time = markers[i].end_time
    /\ lyricsData # <<>> =>
          \A c \in 1..Len(markers) :
             LET i == KeptAt[c]
                 nextTime == IF i = Len(lyricsData) THEN 0
                             ELSE IF lyricsData[i + 1].t \notin {<<>>, <<0>>}
                                  THEN lyricsData[i + 1].t[1]
                             ELSE IF lyricsData[i + 1].time \notin {<<>>, <<0>>}
                                  THEN lyricsData[i + 1].time[1]
                             ELSE 0
             IN markers[c].end_time =
                   <<IF nextTime # 0 THEN nextTime ELSE markers[c].time[1] + 300>>

C17_Witness ==
    /\ Rendered
    /\ lyricsData = <<>>
    /\ Len(markers) = 3
    /\ markers[3].end_time = <<>>
    /\ segments[3].e = segments[3].t + 500
    /\ segmentsCode[3].end_time = <<segmentsCode[3].time + 300>>
    /\ time >= segments[3].t
    /\ segIndex = 3

\* the phase of the segment at segIndex, read from what the evaluators
\* return for it: 0 BEFORE_START, 1 REVEALING, 2 HOLDING, 3 FADING_OUT,
\* 4 HIDDEN
PhaseOf(text, op, seg) ==
    IF op = <<0>> THEN 4
    ELSE IF op[1] < Scale * 100 THEN 3
    ELSE IF Len(WordsOf(text)) = Len(seg.words) THEN 2
    ELSE IF text # <<>> THEN 1
    ELSE 0

Phase == PhaseOf(monoText, opacity, segments[segIndex])

\* the frame belongs to the segment at segIndex: the next one has not started
InOwnWindow(t) == segIndex < Len(segments) => t < segments[segIndex + 1].t

(* C18: on a timeline with non-decreasing word times and segments that do  *)
(* not overlap, as time increases a segment passes through BEFORE_START,   *)
(* REVEALING, HOLDING, FADING_OUT, HIDDEN in that order and never returns  *)
(* to an earlier phase until the next segment starts; it fades only with   *)
(* all its words shown, and when the next segment's first word starts it   *)
(* has left REVEALING.                                                     *)
C18_PhaseOrder ==
    [][ /\ (MonoActive /\ WellFormed(segments) /\ segIndex' = segIndex
                      /\ time' > time /\ InOwnWindow(time'))
            => /\ opacity # <<>> /\ opacity' # <<>>
               /\ Phase' >= Phase
        /\ (MonoActive /\ WellFormed(segments))' =>
              /\ Phase' >= 3 =>
                    Len(WordsOf(monoText')) = Len(segments[segIndex'].words)
              /\ (segIndex' < Len(segments)
                  /\ time' >= segments[segIndex' + 1].words[1].s) =>
                    /\ Len(WordsOf(monoText')) = Len(segments[segIndex'].words)
                    /\ Phase' >= 2 ]_vars

C18_Witness ==
    /\ HasNext
    /\ WellFormed(segments)
    /\ Len(segments[segIndex].words) >= 2
    /\ time >= LastWordTime + 2 * fadeDur
    /\ time < NextSegStart
    /\ Phase = 4
    /\ monoText # <<>>


\* a job the batch can build: its media are there and the project holds its
\* OUTPUT n and LYRIC FONT n comps
Buildable(job) ==
    /\ job.media
    /\ <<"OUTPUT", job.job_id>> \in project.comps
    /\ <<"LYRIC FONT", job.job_id>> \in project.comps

InQueue(id) == \E q \in 1..Len(project.renderQueue) : project.renderQueue[q].job = id

\* C19: a job whose OUTPUT n or LYRIC FONT n comp is missing is skipped and
\* the batch goes on: the run is never aborted, and once no job is in hand
\* every buildable job is in the render queue
C19_SkipsAndContinues ==
    /\ batch.status # "aborted"
    /\ (batch.status = "done" =>
          \A n \in 1..Len(jobFiles) : Buildable(jobFiles[n]) => InQueue(jobFiles[n].job_id))

\* the expression holds exactly one lyrics block, with these entries
HoldsLines(expr, lines) ==
    /\ Cardinality({p \in 1..Len(expr) : isBlock(expr[p])}) = 1
    /\ \E p \in 1..Len(expr) : expr[p] = LyricsBlock(lines)

\* C20: after the lyrics are pushed, the expression of every carousel layer
\* that exists holds a lyrics array with the lines of the job
C20_CarouselHoldsLines ==
    /\ \A id \in project.duplicates :
          InQueue(id) =>
             \A i \in 1..Len(CarouselLayers) :
                LET layer == project.layers[id][CarouselLayers[i]]
                IN layer # <<>> =>
                      \E n \in 1..Len(jobFiles) :
                         /\ jobFiles[n].job_id = id
                         /\ HoldsLines(layer[1], jobFiles[n].lines)
    /\ (single.status = "pushed" =>
          \A i \in 1..Len(CarouselLayers) :
             LET layer == single.layers[CarouselLayers[i]]
             IN layer # <<>> => HoldsLines(layer[1], single.lines))

(* C24: the tag shows only once the lyrics have faded and is gone before   *)
(* the next segment: at every time where the TAG_TEXT opacity is above 0   *)
(* the LYRIC_TEXT opacity is 0, and the tag opacity is 0 at every time     *)
(* from 0.2 s before the next segment's start onward.                      *)
C24_TagAfterLyrics ==
    MonoActive =>
       /\ (tagOpacity # <<>> /\ tagOpacity # <<0>>) => opacity = <<0>>
       /\ (HasNext /\ time >= NextSegStart - tagLead) => tagOpacity = <<0>>

\* the entries of the render queue, whichever script added them, each with
\* the folder of its job
QueueEntries ==
    { [entry |-> ae.renderQueue[q], folder |-> jobsFolder.jobs[ae.renderQueue[q].job].folder,
       title |-> jobsFolder.jobs[ae.renderQueue[q].job].song_title] :
        q \in 1..Len(ae.renderQueue) }
    \cup
    { [entry |-> project.renderQueue[q], folder |-> JobFolder(project.renderQueue[q].job),
       title |-> <<>>] :
        q \in 1..Len(project.renderQueue) }

SafeName(name) ==
    /\ \A p \in 1..Len(name) : name[p] \notin Forbidden
    /\ name # <<>> => name[1] \notin Separators /\ name[Len(name)] \notin Separators

(* C21: every render-queue entry of a job writes to                        *)
(* <parent of the job folder>/renders/<name>.mp4, and <name> holds none of *)
(* the characters / \ : * ? " < > | and no leading or trailing whitespace. *)
C21_RenderPath ==
    \A e \in QueueEntries :
       /\ e.entry.dir = SubSeq(e.folder, 1, Len(e.folder) - 1) \o <<"renders">>
       /\ SafeName(e.entry.name)

C21_Witness ==
    \E e \in QueueEntries :
       /\ \E p \in 1..Len(e.title) : e.title[p] \in Forbidden
       /\ e.title[1] = SP
       /\ e.entry.name # <<>>

\* a script has returned from main
Returned(r) == r.status \in {"cancelled", "nofolder", "nojobs", "done"}

(* C25: every run of main that opens an undo group closes it before main   *)
(* returns, on every exit path: dialog cancelled, jobs folder missing, no  *)
(* job JSON found, normal completion.                                      *)
C25_UndoGroupClosed ==
    /\ Returned(styleRun) => ~styleRun.undoOpen
    /\ Returned(batch) => ~batch.undoOpen

(* C26: when the folder selection is cancelled, or the folder holds no job *)
(* JSON file, main returns with the project unchanged: no comp is removed, *)
(* duplicated, renamed or queued.                                          *)
C26_ProjectUnchanged ==
    [][/\ styleRun'.status \in {"cancelled", "nojobs"} => ae' = ae
       /\ batch'.status \in {"cancelled", "nojobs"} => project' = project]_vars

\* the jobs the loop of the style script has passed over
Skipped(n) ==
    /\ n < styleRun.j
    /\ \/ ~jobsFolder.jobs[n].readable
       \/ ~jobsFolder.jobs[n].audio
       \/ <<"LYRIC FONT", OrElse(jobsFolder.jobs[n].job_id, n)>> \notin ae.comps

(* C27: a job the loop skips (unreadable or unparsable JSON, missing       *)
(* audio, missing LYRIC FONT N) leaves nothing of itself in the project:   *)
(* no duplicate of MAIN named for it and no render-queue entry.            *)
C27_SkippedLeavesNothing ==
    \A n \in 1..Len(jobsFolder.jobs) :
       Skipped(n) =>
          /\ \A c \in 1..Len(ae.jobComps) : ae.jobComps[c].job # n
          /\ \A q \in 1..Len(ae.renderQueue) : ae.renderQueue[q].job # n

(* C28: within one batch run two different jobs never get the same render  *)
(* output path, whatever their song titles are.                            *)
C28_DistinctPaths ==
    /\ \A q1, q2 \in 1..Len(ae.renderQueue) :
          ae.renderQueue[q1].job # ae.renderQueue[q2].job =>
             <<ae.renderQueue[q1].dir, ae.renderQueue[q1].name>>
                # <<ae.renderQueue[q2].dir, ae.renderQueue[q2].name>>
    /\ \A q1, q2 \in 1..Len(project.renderQueue) :
          project.renderQueue[q1].job # project.renderQueue[q2].job =>
             <<project.renderQueue[q1].dir, project.renderQueue[q1].name>>
                # <<project.renderQueue[q2].dir, project.renderQueue[q2].name>>

(* C29: sanitizeFilename never returns the empty string: for an empty or   *)
(* whitespace-only title and for a title made only of removed characters   *)
(* the result has at least one character.                                  *)
C29_NeverEmpty ==
    \A n \in 1..Len(jobsFolder.jobs) :
       n < styleRun.j => sanitizeFilename(jobsFolder.jobs[n].song_title) # <<>>

\* the markers' times are numbers, none negative, each later than the one before
IncreasingTimes ==
    /\ \A k \in 1..Len(markers) : markers[k].time # <<>> /\ markers[k].time[1] >= 0
    /\ \A k \in 1..(Len(markers) - 1) : markers[k].time[1] < markers[k + 1].time[1]

(* C22: the markers of a layer are rebuilt in full on every run: after the *)
(* injection step the layer carries only keys made from that run's markers *)
(* and no key that was there before, and a second run with the same        *)
(* markers leaves the keys the first run left.                             *)
C22_Rebuilt ==
    [][markerKeys' # markerKeys =>
          /\ \A key \in markerKeys'.keys :
                /\ key[2] \in 1..Len(markers)
                /\ key[1] >= OrElse(markers[key[2]].time, 0)
          /\ markerKeys.by # "none" => markerKeys'.keys = markerKeys.keys]_vars

C22_Witness ==
    /\ markerKeys.runs = 2
    /\ Cardinality(markerKeys.keys) > 1
    /\ \E key \in markerKeys.keys : key[1] = 0

\* the keys the claim names for the beats b
BeatKeys(b, frame) ==
    {<<b[i], PEAK>> : i \in 1..Len(b)}
       \cup {<<b[i + 1] - frame, BASE>> : i \in {j \in 1..(Len(b) - 1) : b[j + 1] - frame > b[j]}}

IncreasingBeats(b) == \A i \in 1..(Len(b) - 1) : b[i] < b[i + 1]

(* C23: after applyBeatSync with two or more strictly increasing beats the *)
(* intensity has a key of 75 at every beat, a key of 15 at (next beat -    *)
(* one frame) for each pair where that time is later than the current      *)
(* beat, and no other key; with fewer than two beats the keys are left as  *)
(* they were.                                                              *)
C23_BeatKeys ==
    [][intensityKeys'.runs # intensityKeys.runs =>
          /\ (Len(intensityKeys'.beats) >= 2 /\ IncreasingBeats(intensityKeys'.beats)) =>
                intensityKeys'.keys =
                   BeatKeys(intensityKeys'.beats, 100 \div intensityKeys'.frameRate)
          /\ Len(intensityKeys'.beats) < 2 => intensityKeys'.keys = intensityKeys.keys]_vars

C23_Witness ==
    /\ Len(intensityKeys.beats) > 2
    /\ IncreasingBeats(intensityKeys.beats)
    /\ \E i \in 1..(Len(intensityKeys.beats) - 1) :
          intensityKeys.beats[i + 1] - 100 \div intensityKeys.frameRate <= intensityKeys.beats[i]
    /\ \E key \in intensityKeys.keys : key[2] = BASE

(* C30: in the installer Mono script, when the segment times are           *)
(* non-negative and strictly increasing, the marker key of every segment   *)
(* is set exactly at the segment's time: the layer ends with one key per   *)
(* segment, at the segments' times.                                        *)
C30_KeysAtSegmentTimes ==
    (markerKeys.by \in {"InstallerAudio", "InstallerBackground"} /\ IncreasingTimes) =>
       markerKeys.keys = {<<markers[k].time[1], k>> : k \in 1..Len(markers)}

=========================================================================
